---------------------------- MODULE Spec2Model ----------------------------
(***************************************************************************)
(* Model of the LAPUP weather-station scripts:                             *)
(*   LAPUP_1min_qc.py      quality control of the raw 1-min file,          *)
(*   LAPUP_min2hourly_qc.py hourly aggregation of the quality-controlled   *)
(*                         file the first script writes.                   *)
(*                                                                         *)
(* Numbers are fixed point.  A channel value is kept in tenths of its      *)
(* unit (T = 100 is 10.0 degC, wd = 450 is 45.0 deg, bat = 87 is 8.7 V).   *)
(* Wind components are kept in thousandths of m/s.  A cell of a data       *)
(* frame is <<x>> for the number x and <<>> for NaN, so that a comparison  *)
(* with a NaN has to be written the way pandas evaluates it (False).       *)
(***************************************************************************)
EXTENDS Integers, Sequences, FiniteSets, TLC

VARIABLES
    input,      \* rows of Meteo_1min_<annum>_raw.dat, in file order
    pc,         \* position of LAPUP_1min_qc.py in Stages; 0 once it has raised
    index,      \* df.index of the 1-min script
    df,         \* df of the 1-min script: one row of channels per index entry
    log,        \* lines written to Meteo_<annum>_log.txt, in writing order
    wind,       \* columns wind_u, wind_v of df (lines 156-157)
    monthly,    \* ws_monthly, wd_monthly and the monthly component means
    qcfile,     \* Meteo_1min_<annum>_qc.csv: <<>> or <<[index, df]>>
    hpc,        \* position of LAPUP_min2hourly_qc.py
    hourly,     \* df and df_h of the hourly script
    raised,     \* the stage at which the 1-min script raised, "" while it has not
    probe       \* argument and result of the pure functions (SpecWind, SpecGradient)

vars == <<input, pc, index, df, log, wind, monthly, qcfile, hpc, hourly, raised, probe>>

----------------------------------------------------------------------------
(* Bounds of the model *)

\* longest raw file, in rows
MaxLen == 2
\* minutes of the 1-min grid in one hour of the scale model
MinutesPerHour == 2
\* minutes of the 1-min grid in one calendar month of the scale model
MinutesPerMonth == 2
\* largest wind speed of the round-trip check, in m/s
MaxSpeed == 3
\* longest series given to the gradient check
MaxSeries == 3

\* months of a calendar year; the fixed shape of wd_monthly
MonthsPerYear == 12

----------------------------------------------------------------------------
(* Cells *)

NaN == <<>>
Num(x) == <<x>>
IsNaN(c) == c = NaN
Val(c) == c[1]

\* pandas/numpy comparisons: a comparison with NaN is False
Lt(c, x) == (~IsNaN(c)) /\ Val(c) < x
Gt(c, x) == (~IsNaN(c)) /\ Val(c) > x

Abs(x) == IF x < 0 THEN -x ELSE x

\* quotient rounded to the nearest integer (fixed-point stand-in for float division)
RoundDiv(a, b) == IF a >= 0 THEN (2 * a + b) \div (2 * b) ELSE -((2 * (-a) + b) \div (2 * b))

----------------------------------------------------------------------------
(* Channels and their plausible ranges, in tenths *)

Channels == {"T", "phi", "ws", "wd", "wg", "precip", "pres", "bat"}

temp   == [name |-> "T",      min |-> -20,  max |-> 410]
rh     == [name |-> "phi",    min |-> 50,   max |-> 1000]
precip == [name |-> "precip", min |-> 0,    max |-> 400]
press  == [name |-> "pres",   min |-> 9700, max |-> 10300]
batt   == [name |-> "bat",    min |-> 85,   max |-> 150]
wspeed == [name |-> "ws",     min |-> 0,    max |-> 750]
wgust  == [name |-> "wg",     min |-> 0,    max |-> 750]
wdir   == [name |-> "wd",     min |-> 0,    max |-> 3600]

\* the list of the out-of-range logging loop
LoggedParameters == <<temp, rh, precip, press, batt, wspeed, wgust>>

\* the list of the outlier replacement loop
ReplacedParameters == <<temp, rh, precip, press, wspeed, wgust, wdir>>

\* df.bat < 9.
BatteryLimit == 90

----------------------------------------------------------------------------
(* Raw input *)

Reading(T, phi, ws, wd, wg, P, p, bat) ==
    [c \in Channels |->
        CASE c = "T" -> T [] c = "phi" -> phi [] c = "ws" -> ws [] c = "wd" -> wd
          [] c = "wg" -> wg [] c = "precip" -> P [] c = "pres" -> p [] c = "bat" -> bat]

AllNaN == [c \in Channels |-> NaN]

\* the readings a raw row is drawn from: plausible ones, one with every
\* channel above its range, one with every channel below it, low-battery
\* rows with plausible and with implausible values, and an empty row
Readings ==
    { Reading(Num(100), Num(500), Num(50), Num(450), Num(80), Num(2), Num(10100), Num(125)),
      Reading(Num(150), Num(650), Num(30), Num(2700), Num(60), Num(0), Num(10050), Num(125)),
      Reading(Num(420), Num(1010), Num(760), Num(3610), Num(760), Num(401), Num(10310), Num(160)),
      Reading(Num(-30), Num(40), Num(-1), Num(-10), Num(-1), Num(-1), Num(9690), Num(125)),
      Reading(Num(100), Num(500), Num(50), Num(450), Num(80), Num(2), Num(10100), Num(87)),
      Reading(Num(420), Num(1010), Num(760), Num(3610), Num(760), Num(401), Num(10310), Num(80)),
      AllNaN }

\* last minute of the calendar year of the scale model
LastMinute == MonthsPerYear * MinutesPerMonth - 1

\* the time stamps a raw row is drawn from, in minutes since the start of the year
Stamps == {0, 1, LastMinute}

RawRows == [time : Stamps, obs : Readings]

RawFiles == UNION {[1..n -> RawRows] : n \in 1..MaxLen}

----------------------------------------------------------------------------
(* Regularisation: lines 61-68 *)

\* df[~df.index.duplicated(keep='first')]
Duplicated(rows, i) == \E j \in 1..(i - 1) : rows[j].time = rows[i].time

\* variant: df[~df.index.duplicated(keep='last')]
DropDuplicatesLast(rows) ==
    LET kept == {i \in 1..Len(rows) : ~\E j \in (i + 1)..Len(rows) : rows[j].time = rows[i].time}
        Nth(k) == CHOOSE i \in kept : Cardinality({j \in kept : j < i}) = k - 1
    IN  [k \in 1..Cardinality(kept) |-> rows[Nth(k)]]

RECURSIVE DropDuplicates(_)
DropDuplicates(rows) ==
    IF rows = <<>> THEN <<>>
    ELSE LET n == Len(rows)
             head == DropDuplicates(SubSeq(rows, 1, n - 1))
         IN  IF Duplicated(rows, n) THEN head ELSE Append(head, rows[n])

\* pd.date_range(first, last, freq='1min')
DateRange(first, last) == [i \in 1..(IF last >= first THEN last - first + 1 ELSE 0) |-> first + i - 1]

\* df.reindex(dr): the row of the frame carrying t, a NaN row where none does
Reindex(rows, dr) ==
    [i \in 1..Len(dr) |->
        IF \E j \in 1..Len(rows) : rows[j].time = dr[i]
        THEN rows[CHOOSE j \in 1..Len(rows) : rows[j].time = dr[i]].obs
        ELSE AllNaN]

\* first = df.iloc[0].name; last = df.iloc[-1].name; dr = pd.date_range(first, last)
TimeGrid(rows) == DateRange(rows[1].time, rows[Len(rows)].time)

----------------------------------------------------------------------------
(* Trigonometry in fixed point: angles in tenths of a degree, sines times 10000 *)

\* np.sin at the whole degrees 0..90, times 10000
SinTable ==
 << 0, 175, 349, 523, 698, 872, 1045, 1219, 1392, 1564,
    1736, 1908, 2079, 2250, 2419, 2588, 2756, 2924, 3090, 3256,
    3420, 3584, 3746, 3907, 4067, 4226, 4384, 4540, 4695, 4848,
    5000, 5150, 5299, 5446, 5592, 5736, 5878, 6018, 6157, 6293,
    6428, 6561, 6691, 6820, 6947, 7071, 7193, 7314, 7431, 7547,
    7660, 7771, 7880, 7986, 8090, 8192, 8290, 8387, 8480, 8572,
    8660, 8746, 8829, 8910, 8988, 9063, 9135, 9205, 9272, 9336,
    9397, 9455, 9511, 9563, 9613, 9659, 9703, 9744, 9781, 9816,
    9848, 9877, 9903, 9925, 9945, 9962, 9976, 9986, 9994, 9998,
    10000 >>

\* sine of a first-quadrant angle, interpolated between whole degrees
SinQ(a) ==
    LET d == a \div 10
        f == a % 10
    IN  IF f = 0 THEN SinTable[d + 1]
        ELSE SinTable[d + 1] + RoundDiv(f * (SinTable[d + 2] - SinTable[d + 1]), 10)

\* np.sin(a * np.pi / 180.)
Sin(a) ==
    LET m == a % 3600
    IN  IF m <= 900 THEN SinQ(m)
        ELSE IF m <= 1800 THEN SinQ(1800 - m)
        ELSE IF m <= 2700 THEN -SinQ(m - 1800)
        ELSE -SinQ(3600 - m)

\* np.cos(a * np.pi / 180.)
Cos(a) == Sin(a + 900)

\* residual of tan(a) = v / u, increasing in a on (-90, 90) degrees
TanResidual(a, v, u) == IF u > 0 THEN u * Sin(a) - v * Cos(a) ELSE v * Cos(a) - u * Sin(a)

\* least angle in lo..hi whose residual is not negative
RECURSIVE ArctanSearch(_, _, _, _)
ArctanSearch(lo, hi, v, u) ==
    IF lo >= hi THEN lo
    ELSE LET mid == (lo + hi) \div 2
         IN  IF TanResidual(mid, v, u) >= 0
             THEN ArctanSearch(lo, mid, v, u)
             ELSE ArctanSearch(mid + 1, hi, v, u)

\* 180 / np.pi * np.arctan(v / u) for u # 0, to the nearest tenth of a degree
Arctan(v, u) ==
    LET a == ArctanSearch(-900, 900, v, u)
    IN  IF a > -900 /\ Abs(TanResidual(a - 1, v, u)) < Abs(TanResidual(a, v, u))
        THEN a - 1 ELSE a

\* largest r in lo..hi with r * r <= n
RECURSIVE SqrtSearch(_, _, _)
SqrtSearch(lo, hi, n) ==
    IF lo >= hi THEN lo
    ELSE LET mid == (lo + hi + 1) \div 2
         IN  IF mid * mid <= n THEN SqrtSearch(mid, hi, n) ELSE SqrtSearch(lo, mid - 1, n)

\* np.sqrt, to the nearest integer
Sqrt(n) ==
    LET r == SqrtSearch(0, 46340, n)
    IN  IF n - r * r > r THEN r + 1 ELSE r

----------------------------------------------------------------------------
(* Wind vector: wind_direction (lines 39-45), decomposition (lines 156-157) *)

\* -df['ws'] * np.sin(df['wd'] * np.pi / 180.), in thousandths of m/s
WindU(ws, wd) ==
    IF IsNaN(ws) \/ IsNaN(wd) THEN NaN ELSE Num(RoundDiv(-(Val(ws) * Sin(Val(wd))), 100))

\* -df['ws'] * np.cos(df['wd'] * np.pi / 180.), in thousandths of m/s
WindV(ws, wd) ==
    IF IsNaN(ws) \/ IsNaN(wd) THEN NaN ELSE Num(RoundDiv(-(Val(ws) * Cos(Val(wd))), 100))

\* np.sqrt(u ** 2 + v ** 2), in thousandths of m/s
WindSpeed(u, v) ==
    IF IsNaN(u) \/ IsNaN(v) THEN NaN ELSE Num(Sqrt(Val(u) * Val(u) + Val(v) * Val(v)))

\* variant: the offset on the other half-plane (if u < 0.)
Phi0Swapped(u) == IF Lt(u, 0) THEN 1800 ELSE 0

\* if u > 0.: phi0 = 180. else: phi0 = 0.
Phi0(u) == IF Gt(u, 0) THEN 1800 ELSE 0

\* wind_direction(u, v): the values the call can return, in tenths of a
\* degree.  A NaN component gives NaN.  With u = 0 the quotient v / u of two
\* numpy floats is +inf or -inf by the sign of the zero, or NaN when v = 0 too.
wind_direction(u, v) ==
    IF IsNaN(u) \/ IsNaN(v) THEN {NaN}
    ELSE IF Val(u) = 0
         THEN IF Val(v) = 0 THEN {NaN} ELSE {Num(900 - 900 + Phi0(u)), Num(900 + 900 + Phi0(u))}
         ELSE {Num(900 - Arctan(Val(v), Val(u)) + Phi0(u))}

----------------------------------------------------------------------------
(* Resampling: Series.resample(rule).mean() and .sum() on the regular grid *)

\* labels of the periods of length len between the first and the last index entry
Periods(idx, len) ==
    IF idx = <<>> THEN <<>>
    ELSE LET k0 == idx[1] \div len
             k1 == idx[Len(idx)] \div len
         IN  [k \in 1..(k1 - k0 + 1) |-> k0 + k - 1]

\* the cells of a column that fall into period k
Bucket(idx, column, len, k) ==
    LET pos == {i \in 1..Len(idx) : idx[i] \div len = k}
    IN  [i \in pos |-> column[i]]

RECURSIVE SumOver(_, _)
SumOver(f, S) ==
    IF S = {} THEN 0
    ELSE LET i == CHOOSE j \in S : TRUE
         IN  (IF IsNaN(f[i]) THEN 0 ELSE Val(f[i])) + SumOver(f, S \ {i})

\* .mean(): over the non-NaN cells, NaN when there is none
Mean(bucket) ==
    LET present == {i \in DOMAIN bucket : ~IsNaN(bucket[i])}
    IN  IF present = {} THEN NaN ELSE Num(RoundDiv(SumOver(bucket, present), Cardinality(present)))

\* variant: .sum(min_count=1), NaN when there is no non-NaN cell
SumMinCount(bucket) ==
    IF \A i \in DOMAIN bucket : IsNaN(bucket[i]) THEN NaN ELSE Num(SumOver(bucket, DOMAIN bucket))

\* .sum(): over the non-NaN cells, 0 when there is none
Sum(bucket) == Num(SumOver(bucket, DOMAIN bucket))

ResampleMean(idx, column, len) ==
    LET ps == Periods(idx, len)
    IN  [k \in 1..Len(ps) |-> Mean(Bucket(idx, column, len, ps[k]))]

ResampleSum(idx, column, len) ==
    LET ps == Periods(idx, len)
    IN  [k \in 1..Len(ps) |-> Sum(Bucket(idx, column, len, ps[k]))]

Column(frame, name) == [i \in 1..Len(frame) |-> frame[i][name]]

MinutesPerYear == MonthsPerYear * MinutesPerMonth

----------------------------------------------------------------------------
(* The log file: one record per written item *)

\* groups of log content
LogGroups == {"missing", "range", "aggregate", "gradient"}

Line(group, chan, time, val) == [group |-> group, chan |-> chan, time |-> time, val |-> val]

\* lines 77-84: the time stamps whose T is NaN, then the count line unless
\* len(df) = 0 makes its division raise
MissingLines(idx, frame) ==
    LET all == [i \in 1..Len(idx) |-> Line("missing", "T", idx[i], frame[i]["T"])]
        nans == SelectSeq(all, LAMBDA l : IsNaN(l.val))
    IN  <<Line("missing", "Year", -1, NaN), Line("missing", "Missing values", -1, NaN)>>
        \o nans
        \o (IF Len(frame) = 0 THEN <<>>
            ELSE <<Line("missing", "count", -1, <<Len(nans), Len(frame)>>)>>)

\* lines 98-104 for one parameter: the heading, then every value below min or above max
RangeLines(idx, frame, parameter) ==
    LET all == [i \in 1..Len(idx) |-> Line("range", parameter.name, idx[i], frame[i][parameter.name])]
    IN  <<Line("range", parameter.name, -1, NaN)>>
        \o SelectSeq(all, LAMBDA l : Lt(l.val, parameter.min) \/ Gt(l.val, parameter.max))

RECURSIVE AllRangeLines(_, _, _)
AllRangeLines(idx, frame, parameters) ==
    IF parameters = <<>> THEN <<>>
    ELSE RangeLines(idx, frame, Head(parameters)) \o AllRangeLines(idx, frame, Tail(parameters))

----------------------------------------------------------------------------
(* Outlier replacement: lines 130-133 *)

\* df.loc[mask, name] = np.NaN, the mask given as the set of its row positions
SetNaN(frame, name, mask) ==
    [i \in 1..Len(frame) |-> IF i \in mask THEN [frame[i] EXCEPT ![name] = NaN] ELSE frame[i]]

\* the row positions at which the column is below / above the bound
Below(frame, name, bound) == {i \in 1..Len(frame) : Lt(frame[i][name], bound)}
Above(frame, name, bound) == {i \in 1..Len(frame) : Gt(frame[i][name], bound)}

\* variant: the loop body without its last statement (no check against max)
ReplaceOneNoUpper(frame, parameter) ==
    LET gated == SetNaN(frame, parameter.name, Below(frame, "bat", BatteryLimit))
    IN  SetNaN(gated, parameter.name, Below(gated, parameter.name, parameter.min))

\* variant: a value above max takes the previous row's value instead of NaN
ReplaceOneFill(frame, parameter) ==
    LET gated == SetNaN(frame, parameter.name, Below(frame, "bat", BatteryLimit))
        lower == SetNaN(gated, parameter.name, Below(gated, parameter.name, parameter.min))
    IN  [i \in 1..Len(lower) |->
            IF i \in Above(lower, parameter.name, parameter.max)
            THEN [lower[i] EXCEPT ![parameter.name] = IF i = 1 THEN NaN ELSE lower[i - 1][parameter.name]]
            ELSE lower[i]]

\* one pass of the loop body for one parameter
ReplaceOne(frame, parameter) ==
    LET gated == SetNaN(frame, parameter.name, Below(frame, "bat", BatteryLimit))
        lower == SetNaN(gated, parameter.name, Below(gated, parameter.name, parameter.min))
    IN  SetNaN(lower, parameter.name, Above(lower, parameter.name, parameter.max))

RECURSIVE ReplaceAll(_, _)
ReplaceAll(frame, parameters) ==
    IF parameters = <<>> THEN frame
    ELSE ReplaceAll(ReplaceOne(frame, Head(parameters)), Tail(parameters))

\* the whole loop
ReplaceOutliers(frame) == ReplaceAll(frame, ReplacedParameters)

----------------------------------------------------------------------------
(* Gradient check: lines 201-207 *)

\* df[parameter].dropna(), with the time stamps
DropNa(idx, column) ==
    SelectSeq([i \in 1..Len(idx) |-> [time |-> idx[i], val |-> column[i]]], LAMBDA e : ~IsNaN(e.val))

\* twice np.gradient(f) for unit spacing: central differences inside,
\* one-sided differences at both ends (doubled to stay in the integers)
Gradient2(f) ==
    [i \in 1..Len(f) |->
        IF i = 1 THEN 2 * (f[2] - f[1])
        ELSE IF i = Len(f) THEN 2 * (f[i] - f[i - 1])
        ELSE f[i + 1] - f[i - 1]]

\* positions i with np.gradient(f)[i] >= limit
Steep(f, limit) == {i \in 1..Len(f) : Gradient2(f)[i] >= 2 * limit}

\* limit = [3, 10, 20] for ['T', 'phi', 'ws'], in tenths
GradientLimits == <<[name |-> "T", limit |-> 30], [name |-> "phi", limit |-> 100], [name |-> "ws", limit |-> 200]>>

\* the loop over the parameters from the k-th one on: [lines, ok].  np.gradient
\* raises on fewer than two values, after the parameter's name has been written
RECURSIVE GradientLines(_, _, _)
GradientLines(idx, frame, k) ==
    IF k > Len(GradientLimits) THEN [lines |-> <<>>, ok |-> TRUE]
    ELSE LET g == GradientLimits[k]
             df1 == DropNa(idx, Column(frame, g.name))
             head == <<Line("gradient", g.name, -1, NaN)>>
         IN  IF Len(df1) < 2 THEN [lines |-> head, ok |-> FALSE]
             ELSE LET f == [i \in 1..Len(df1) |-> Val(df1[i].val)]
                      hits == Steep(f, g.limit)
                      flagged == SelectSeq([i \in 1..Len(df1) |-> [pos |-> i, e |-> df1[i]]],
                                           LAMBDA x : x.pos \in hits)
                      rest == GradientLines(idx, frame, k + 1)
                  IN  [lines |-> head
                                 \o [i \in 1..Len(flagged) |->
                                        Line("gradient", g.name, flagged[i].e.time, flagged[i].e.val)]
                                 \o rest.lines,
                       ok |-> rest.ok]

----------------------------------------------------------------------------
(* LAPUP_1min_qc.py, statement by statement.  The plots (lines 110-126) and *)
(* the wind rose (lines 141-150) read df and change nothing.                *)

\* variant: the gradient check moved in front of the averages
StagesReordered ==
    << "regularize", "logmissing", "logrange", "replace", "tocsv", "decompose",
       "gradient", "means", "windmonthly", "windannual", "precipsums", "close" >>

\* the order of the script's blocks
Stages ==
    << "regularize", "logmissing", "logrange", "replace", "tocsv", "decompose",
       "means", "windmonthly", "windannual", "precipsums", "gradient", "close" >>

At(stage) == pc \in 1..Len(Stages) /\ Stages[pc] = stage
Finished == pc = Len(Stages) + 1
Raised == pc = 0
Pos(stage) == CHOOSE k \in 1..Len(Stages) : Stages[k] = stage
\* the block has run to its end
Past(stage) == IF Raised THEN Pos(raised) > Pos(stage) ELSE pc > Pos(stage)

Step == pc' = pc + 1 /\ UNCHANGED raised
Raise(stage) == pc' = 0 /\ raised' = stage

NoMonthly == [u |-> <<>>, v |-> <<>>, ws |-> <<>>, wd |-> <<>>]
NoHourly == [idx |-> <<>>, frame |-> <<>>, wind |-> <<>>, T |-> <<>>, phi |-> <<>>, pres |-> <<>>,
             wind_u |-> <<>>, wind_v |-> <<>>, ws |-> <<>>, wd |-> <<>>, precip |-> <<>>]

\* the sequences that take their i-th entry from the i-th set
RECURSIVE Choices(_)
Choices(sets) ==
    IF sets = <<>> THEN {<<>>}
    ELSE {<<x>> \o rest : x \in Head(sets), rest \in Choices(Tail(sets))}

\* lines 61-68
Regularize ==
    /\ At("regularize")
    /\ LET rows == DropDuplicates(input)
           dr == TimeGrid(rows)
       IN  /\ index' = dr
           /\ df' = Reindex(rows, dr)
    /\ Step
    /\ UNCHANGED <<input, log, wind, monthly, qcfile, hpc, hourly, probe>>

\* lines 72-84
LogMissing ==
    /\ At("logmissing")
    /\ log' = log \o MissingLines(index, df)
    /\ IF Len(df) = 0 THEN Raise("logmissing") ELSE Step
    /\ UNCHANGED <<input, index, df, wind, monthly, qcfile, hpc, hourly, probe>>

\* lines 97-106
LogRange ==
    /\ At("logrange")
    /\ log' = log \o AllRangeLines(index, df, LoggedParameters)
    /\ Step
    /\ UNCHANGED <<input, index, df, wind, monthly, qcfile, hpc, hourly, probe>>

\* lines 130-133
Replace ==
    /\ At("replace")
    /\ df' = ReplaceOutliers(df)
    /\ Step
    /\ UNCHANGED <<input, index, log, wind, monthly, qcfile, hpc, hourly, probe>>

\* line 135; the modelled values have one decimal, which '%.1f' keeps
ToCsv ==
    /\ At("tocsv")
    /\ qcfile' = <<[index |-> index, df |-> df]>>
    /\ Step
    /\ UNCHANGED <<input, index, df, log, wind, monthly, hpc, hourly, probe>>

\* lines 156-157
Decompose ==
    /\ At("decompose")
    /\ wind' = [i \in 1..Len(df) |-> [u |-> WindU(df[i]["ws"], df[i]["wd"]),
                                      v |-> WindV(df[i]["ws"], df[i]["wd"])]]
    /\ Step
    /\ UNCHANGED <<input, index, df, log, monthly, qcfile, hpc, hourly, probe>>

MeanLines(idx, frame, name) ==
    << Line("aggregate", name, -1, ResampleMean(idx, Column(frame, name), MinutesPerMonth)),
       Line("aggregate", name, -1, ResampleMean(idx, Column(frame, name), MinutesPerYear)) >>

\* lines 162-167
LogMeans ==
    /\ At("means")
    /\ log' = log \o MeanLines(index, df, "T") \o MeanLines(index, df, "phi") \o MeanLines(index, df, "pres")
    /\ Step
    /\ UNCHANGED <<input, index, df, wind, monthly, qcfile, hpc, hourly, probe>>

\* lines 169-185: wd_monthly has MonthsPerYear rows; filling row i raises when
\* there is none, and the frame built on ws_monthly.index raises unless the
\* number of months is MonthsPerYear
WindMonthly ==
    /\ At("windmonthly")
    /\ LET um == ResampleMean(index, Column(wind, "u"), MinutesPerMonth)
           vm == ResampleMean(index, Column(wind, "v"), MinutesPerMonth)
           ws == [i \in 1..Len(um) |-> WindSpeed(um[i], vm[i])]
           heading == <<Line("aggregate", "Wind speed and direction", -1, NaN)>>
       IN  IF Len(um) # MonthsPerYear
           THEN /\ log' = log \o heading
                /\ Raise("windmonthly")
                /\ UNCHANGED monthly
           ELSE \E wd \in Choices([i \in 1..Len(um) |-> wind_direction(um[i], vm[i])]) :
                /\ monthly' = [u |-> um, v |-> vm, ws |-> ws, wd |-> wd]
                /\ log' = log \o heading
                              \o <<Line("aggregate", "ws", -1, ws), Line("aggregate", "wd", -1, wd)>>
                /\ Step
    /\ UNCHANGED <<input, index, df, wind, qcfile, hpc, hourly, probe>>

\* lines 187-195: wind_direction on the arrays of annual means, whose truth
\* value "u > 0." exists only for a single year
WindAnnual ==
    /\ At("windannual")
    /\ LET ua == ResampleMean(index, Column(wind, "u"), MinutesPerYear)
           va == ResampleMean(index, Column(wind, "v"), MinutesPerYear)
           ws == [i \in 1..Len(ua) |-> WindSpeed(ua[i], va[i])]
           heading == <<Line("aggregate", "Annual averages", -1, NaN)>>
       IN  IF Len(ua) # 1
           THEN /\ log' = log \o heading
                /\ Raise("windannual")
           ELSE \E wd \in wind_direction(ua[1], va[1]) :
                /\ log' = log \o heading
                              \o <<Line("aggregate", "ws", -1, ws), Line("aggregate", "wd", -1, <<wd>>)>>
                /\ Step
    /\ UNCHANGED <<input, index, df, wind, monthly, qcfile, hpc, hourly, probe>>

\* lines 197-199
PrecipSums ==
    /\ At("precipsums")
    /\ log' = log \o << Line("aggregate", "precip", -1, ResampleSum(index, Column(df, "precip"), MinutesPerMonth)),
                        Line("aggregate", "precip", -1, ResampleSum(index, Column(df, "precip"), MinutesPerYear)) >>
    /\ Step
    /\ UNCHANGED <<input, index, df, wind, monthly, qcfile, hpc, hourly, probe>>

\* lines 201-207
GradientCheck ==
    /\ At("gradient")
    /\ LET r == GradientLines(index, df, 1)
       IN  /\ log' = log \o r.lines
           /\ IF r.ok THEN Step ELSE Raise("gradient")
    /\ UNCHANGED <<input, index, df, wind, monthly, qcfile, hpc, hourly, probe>>

\* line 209
Close ==
    /\ At("close")
    /\ Step
    /\ UNCHANGED <<input, index, df, log, wind, monthly, qcfile, hpc, hourly, probe>>

----------------------------------------------------------------------------
(* LAPUP_min2hourly_qc.py, run on the file the 1-min script has written *)

HourlyStages == <<"read", "decompose", "means", "wind", "precip">>

HAt(stage) == hpc \in 1..Len(HourlyStages) /\ HourlyStages[hpc] = stage
HFinished == hpc = Len(HourlyStages) + 1

\* line 54
HRead ==
    /\ HAt("read")
    /\ Finished \/ Raised
    /\ qcfile # <<>>
    /\ hourly' = [hourly EXCEPT !.idx = qcfile[1].index, !.frame = qcfile[1].df]
    /\ hpc' = hpc + 1
    /\ UNCHANGED <<input, pc, index, df, log, wind, monthly, qcfile, raised, probe>>

\* lines 63-64
HDecompose ==
    /\ HAt("decompose")
    /\ hourly' = [hourly EXCEPT !.wind =
                     [i \in 1..Len(hourly.frame) |->
                         [u |-> WindU(hourly.frame[i]["ws"], hourly.frame[i]["wd"]),
                          v |-> WindV(hourly.frame[i]["ws"], hourly.frame[i]["wd"])]]]
    /\ hpc' = hpc + 1
    /\ UNCHANGED <<input, pc, index, df, log, wind, monthly, qcfile, raised, probe>>

\* lines 68-69
HMeans ==
    /\ HAt("means")
    /\ hourly' = [hourly EXCEPT
                     !.T = ResampleMean(hourly.idx, Column(hourly.frame, "T"), MinutesPerHour),
                     !.phi = ResampleMean(hourly.idx, Column(hourly.frame, "phi"), MinutesPerHour),
                     !.pres = ResampleMean(hourly.idx, Column(hourly.frame, "pres"), MinutesPerHour),
                     !.wind_u = ResampleMean(hourly.idx, Column(hourly.wind, "u"), MinutesPerHour),
                     !.wind_v = ResampleMean(hourly.idx, Column(hourly.wind, "v"), MinutesPerHour)]
    /\ hpc' = hpc + 1
    /\ UNCHANGED <<input, pc, index, df, log, wind, monthly, qcfile, raised, probe>>

\* lines 71-78: wd_hourly has one row per hour of df_h
HWind ==
    /\ HAt("wind")
    /\ \E wd \in Choices([i \in 1..Len(hourly.wind_u) |-> wind_direction(hourly.wind_u[i], hourly.wind_v[i])]) :
          hourly' = [hourly EXCEPT
                        !.ws = [i \in 1..Len(hourly.wind_u) |-> WindSpeed(hourly.wind_u[i], hourly.wind_v[i])],
                        !.wd = wd]
    /\ hpc' = hpc + 1
    /\ UNCHANGED <<input, pc, index, df, log, wind, monthly, qcfile, raised, probe>>

\* lines 82-84
HPrecip ==
    /\ HAt("precip")
    /\ hourly' = [hourly EXCEPT !.precip = ResampleSum(hourly.idx, Column(hourly.frame, "precip"), MinutesPerHour)]
    /\ hpc' = hpc + 1
    /\ UNCHANGED <<input, pc, index, df, log, wind, monthly, qcfile, raised, probe>>

----------------------------------------------------------------------------
(* The two scripts on one raw file *)

Init ==
    /\ input \in RawFiles
    /\ pc = 1
    /\ index = <<>>
    /\ df = <<>>
    /\ log = <<>>
    /\ wind = <<>>
    /\ monthly = NoMonthly
    /\ qcfile = <<>>
    /\ hpc = 1
    /\ hourly = NoHourly
    /\ raised = ""
    /\ probe = <<>>

Next ==
    \/ Regularize
    \/ LogMissing
    \/ LogRange
    \/ Replace
    \/ ToCsv
    \/ Decompose
    \/ LogMeans
    \/ WindMonthly
    \/ WindAnnual
    \/ PrecipSums
    \/ GradientCheck
    \/ Close
    \/ HRead
    \/ HDecompose
    \/ HMeans
    \/ HWind
    \/ HPrecip

Spec == Init /\ [][Next]_vars

----------------------------------------------------------------------------
(* The wind transforms on their own: decompose (s, d), then reconstruct *)

\* the scripts at rest
Idle ==
    /\ input = <<>>
    /\ pc = Len(Stages) + 1
    /\ index = <<>>
    /\ df = <<>>
    /\ log = <<>>
    /\ wind = <<>>
    /\ monthly = NoMonthly
    /\ qcfile = <<>>
    /\ hpc = Len(HourlyStages) + 1
    /\ hourly = NoHourly
    /\ raised = ""

IdleVars == <<input, pc, index, df, log, wind, monthly, qcfile, hpc, hourly, raised>>

\* speeds 1..MaxSpeed m/s and every direction of [0, 360) in steps of 0.1 degree
InitWind ==
    /\ Idle
    /\ probe \in [stage : {"polar"}, ws : {Num(10 * s) : s \in 1..MaxSpeed}, wd : {Num(d) : d \in 0..3599},
                  u : {NaN}, v : {NaN}, speed : {NaN}, dir : {NaN}]

\* lines 156-157 on one sample
ProbeDecompose ==
    /\ probe.stage = "polar"
    /\ probe' = [probe EXCEPT !.stage = "components",
                              !.u = WindU(probe.ws, probe.wd),
                              !.v = WindV(probe.ws, probe.wd)]
    /\ UNCHANGED IdleVars

\* lines 71-76 of the hourly script on one pair of components
ProbeReconstruct ==
    /\ probe.stage = "components"
    /\ \E wd \in wind_direction(probe.u, probe.v) :
          probe' = [probe EXCEPT !.stage = "rebuilt",
                                 !.speed = WindSpeed(probe.u, probe.v),
                                 !.dir = wd]
    /\ UNCHANGED IdleVars

NextWind == ProbeDecompose \/ ProbeReconstruct

SpecWind == InitWind /\ [][NextWind]_vars

----------------------------------------------------------------------------
(* The gradient check on its own: one series, one limit *)

\* 10.0, 12.0, 15.0, 35.0 and NaN
SeriesValues == {NaN, Num(100), Num(120), Num(150), Num(350)}

InitGradient ==
    /\ Idle
    /\ probe \in [stage : {"series"},
                  column : UNION {[1..n -> SeriesValues] : n \in 2..MaxSeries},
                  limit : {GradientLimits[k].limit : k \in 1..Len(GradientLimits)},
                  flagged : {{}}]

\* lines 205-206 on one column: the time stamps of the listed values
ProbeGradient ==
    /\ probe.stage = "series"
    /\ LET df1 == DropNa([i \in 1..Len(probe.column) |-> i], probe.column)
           f == [i \in 1..Len(df1) |-> Val(df1[i].val)]
       IN  IF Len(df1) < 2
           THEN probe' = [probe EXCEPT !.stage = "raised"]
           ELSE probe' = [probe EXCEPT !.stage = "listed",
                                       !.flagged = {df1[i].time : i \in Steep(f, probe.limit)}]
    /\ UNCHANGED IdleVars

NextGradient == ProbeGradient

SpecGradient == InitGradient /\ [][NextGradient]_vars

----------------------------------------------------------------------------
(* Properties *)

\* the frame as regularised, before the outlier replacement touches it
Regular == Reindex(DropDuplicates(input), TimeGrid(DropDuplicates(input)))

OutOfRange(c, parameter) == Lt(c, parameter.min) \/ Gt(c, parameter.max)

\* the eight channels that have a configured range
AllParameters == {temp, rh, precip, press, batt, wspeed, wgust, wdir}

\* the seven channels of the designated set
Designated == {temp, rh, precip, press, wspeed, wgust, wdir}

\* the rows of the raw file that carry time stamp t
Carriers(t) == {j \in 1..Len(input) : input[j].time = t}

Least(S) == CHOOSE x \in S : \A y \in S : x <= y
Greatest(S) == CHOOSE x \in S : \A y \in S : x >= y

\* C1 (as amended): after the outlier replacement, no value of the seven
\* designated channels lies below its min or above its max, every value of
\* the seven at a time stamp whose battery voltage is below 9.0 is missing,
\* and the battery column is what it was before the step.
C1_DesignatedInRangeAndGated ==
    Past("replace") =>
        \A i \in 1..Len(df) :
            /\ \A parameter \in Designated :
                  /\ ~OutOfRange(df[i][parameter.name], parameter)
                  /\ Lt(df[i]["bat"], BatteryLimit) => IsNaN(df[i][parameter.name])
            /\ df[i]["bat"] = Regular[i]["bat"]

\* C1 (as claimed): after the outlier replacement no value of any of the
\* eight channels with a range, battery voltage included, lies outside its
\* range, and the seven designated channels are missing under low battery.
C1_AllChannelsInRange ==
    Past("replace") =>
        \A i \in 1..Len(df) :
            /\ \A parameter \in AllParameters : ~OutOfRange(df[i][parameter.name], parameter)
            /\ \A parameter \in Designated :
                  Lt(df[i]["bat"], BatteryLimit) => IsNaN(df[i][parameter.name])

\* C1 witness: the replacement has run over a frame holding a low-battery
\* row with a reading and a healthy-battery row with a temperature above max.
C1_Witness ==
    /\ Past("replace")
    /\ \E i \in 1..Len(df) : Lt(Regular[i]["bat"], BatteryLimit) /\ ~IsNaN(Regular[i]["T"])
    /\ \E j \in 1..Len(df) : ~Lt(Regular[j]["bat"], BatteryLimit) /\ Gt(Regular[j]["T"], temp.max)

\* C2: the regularised index is the 1-minute grid from the earliest to the
\* latest time stamp of the input, inclusive.
C2_GridSpansEarliestToLatest ==
    Past("regularize") =>
        LET times == {input[j].time : j \in 1..Len(input)}
        IN  /\ Len(index) = Greatest(times) - Least(times) + 1
            /\ \A i \in 1..Len(index) : index[i] = Least(times) + i - 1

\* C3: every row of the regularised frame whose time stamp is carried by
\* input rows holds the channels of the first of them in file order; every
\* row whose time stamp no input row carries is all missing.
C3_FirstOccurrenceOrMissing ==
    Past("regularize") /\ ~Past("replace") =>
        /\ Len(df) = Len(index)
        /\ \A i \in 1..Len(index) :
              IF Carriers(index[i]) # {}
              THEN df[i] = input[Least(Carriers(index[i]))].obs
              ELSE df[i] = AllNaN

\* C3 witness: a regularised frame with a time stamp carried by two input
\* rows of different readings, whose row holds the first one's.
C3_Witness ==
    /\ Past("regularize")
    /\ ~Past("replace")
    /\ \E i \in 1..Len(index) :
          \E j, k \in Carriers(index[i]) : j < k /\ input[j].obs # input[k].obs /\ df[i] = input[j].obs

\* the log holds an out-of-range line for the channel at the time stamp
Reported(name, t) == \E k \in 1..Len(log) : log[k].group = "range" /\ log[k].chan = name /\ log[k].time = t

\* C4: from the moment the replacement is about to run, every value of a
\* designated channel that the range rule nulls (battery not below 9.0,
\* value outside the range) has an out-of-range line in the log, and a value
\* inside its range that only the battery rule nulls has none.
C4_RangeNullingReported ==
    At("replace") \/ Past("replace") =>
        \A i \in 1..Len(index) : \A parameter \in Designated :
            LET c == Regular[i][parameter.name]
            IN  /\ (~Lt(Regular[i]["bat"], BatteryLimit) /\ OutOfRange(c, parameter))
                      => Reported(parameter.name, index[i])
                /\ (Lt(Regular[i]["bat"], BatteryLimit) /\ ~IsNaN(c) /\ ~OutOfRange(c, parameter))
                      => ~Reported(parameter.name, index[i])

\* the aggregate lines the log holds for a channel, in writing order
AggregateLines(name) == SelectSeq(log, LAMBDA l : l.group = "aggregate" /\ l.chan = name)

\* every sample of the column in the k-th period of the resampled range is missing
AllMissing(idx, column, len, k) ==
    \A i \in 1..Len(idx) : idx[i] \div len = idx[1] \div len + k - 1 => IsNaN(column[i])

MeanMissingWhereAllMissing(idx, column, len, means) ==
    \A k \in 1..Len(means) : AllMissing(idx, column, len, k) => IsNaN(means[k])

SumZeroWhereAllMissing(idx, column, len, sums) ==
    \A k \in 1..Len(sums) : AllMissing(idx, column, len, k) => sums[k] = Num(0)

\* C5: in every hour, month and year whose samples of a channel are all
\* missing, the mean of T, phi, pres, wind_u and wind_v is missing and the
\* precipitation sum is 0.
C5_AllMissingPeriods ==
    /\ Past("means") =>
          \A name \in {"T", "phi", "pres"} :
              /\ MeanMissingWhereAllMissing(index, Column(df, name), MinutesPerMonth, AggregateLines(name)[1].val)
              /\ MeanMissingWhereAllMissing(index, Column(df, name), MinutesPerYear, AggregateLines(name)[2].val)
    /\ Past("windmonthly") =>
          /\ MeanMissingWhereAllMissing(index, Column(wind, "u"), MinutesPerMonth, monthly.u)
          /\ MeanMissingWhereAllMissing(index, Column(wind, "v"), MinutesPerMonth, monthly.v)
    /\ Past("precipsums") =>
          /\ SumZeroWhereAllMissing(index, Column(df, "precip"), MinutesPerMonth, AggregateLines("precip")[1].val)
          /\ SumZeroWhereAllMissing(index, Column(df, "precip"), MinutesPerYear, AggregateLines("precip")[2].val)
    /\ HFinished =>
          /\ \A name \in {"T", "phi", "pres"} :
                MeanMissingWhereAllMissing(hourly.idx, Column(hourly.frame, name), MinutesPerHour, hourly[name])
          /\ MeanMissingWhereAllMissing(hourly.idx, Column(hourly.wind, "u"), MinutesPerHour, hourly.wind_u)
          /\ MeanMissingWhereAllMissing(hourly.idx, Column(hourly.wind, "v"), MinutesPerHour, hourly.wind_v)
          /\ SumZeroWhereAllMissing(hourly.idx, Column(hourly.frame, "precip"), MinutesPerHour, hourly.precip)

\* C5 witness: both scripts have aggregated a frame in which some month and
\* some hour hold no temperature and no precipitation sample, next to a
\* month that holds one.
C5_Witness ==
    /\ Past("precipsums")
    /\ HFinished
    /\ \E k \in 1..Len(monthly.u) :
          AllMissing(index, Column(df, "T"), MinutesPerMonth, k) /\ AllMissing(index, Column(df, "precip"), MinutesPerMonth, k)
    /\ \E k \in 1..Len(monthly.u) : ~AllMissing(index, Column(df, "T"), MinutesPerMonth, k)
    /\ \E k \in 1..Len(hourly.T) :
          AllMissing(hourly.idx, Column(hourly.frame, "T"), MinutesPerHour, k)
          /\ AllMissing(hourly.idx, Column(hourly.frame, "precip"), MinutesPerHour, k)

\* C8: a second run of the outlier replacement over the result of the first
\* changes no cell.
C8_ReplaceIdempotent == Past("replace") => ReplaceOutliers(df) = df

\* C8 witness: the first run has changed the regularised frame.
C8_Witness == Past("replace") /\ df # Regular

RankIn(order, group) == CHOOSE k \in 1..Len(order) : order[k] = group

\* no line of a later group of the order is followed by a line of an earlier one
LogFollows(order) ==
    \A k \in 1..(Len(log) - 1) : RankIn(order, log[k].group) <= RankIn(order, log[k + 1].group)

\* C9 (as amended): the log holds the missing-value lines first, then the
\* out-of-range lines, then the aggregate summaries, and the steep-gradient
\* lines last.
C9_AggregatesBeforeGradient == LogFollows(<<"missing", "range", "aggregate", "gradient">>)

\* C9 (as claimed): the log holds the missing-value lines, then the
\* out-of-range lines, then the steep-gradient lines, and the aggregate
\* summaries last.
C9_GradientBeforeAggregates == LogFollows(<<"missing", "range", "gradient", "aggregate">>)

\* C9 witness: a finished run whose log holds lines of all four groups.
C9_Witness == Finished /\ \A group \in LogGroups : \E k \in 1..Len(log) : log[k].group = group

\* the number of calendar months the regular series covers
MonthsCovered == index[Len(index)] \div MinutesPerMonth - index[1] \div MinutesPerMonth + 1

\* C10: for a series covering n months, 1 <= n <= 12, the monthly wind
\* aggregation does not raise and leaves n wind speeds and n wind directions,
\* the i-th direction being wind_direction of the i-th mean components.
C10_MonthlyWindForAnyMonths ==
    Past("means") /\ MonthsCovered \in 1..MonthsPerYear =>
        /\ raised # "windmonthly"
        /\ Past("windmonthly") =>
              /\ Len(monthly.ws) = MonthsCovered
              /\ Len(monthly.wd) = MonthsCovered
              /\ \A i \in 1..MonthsCovered : monthly.wd[i] \in wind_direction(monthly.u[i], monthly.v[i])

\* C6: the gradient check flags a transition between two adjacent values of
\* the non-missing subsequence exactly when their absolute difference is at
\* least the limit, so that 10 -> 15 and 15 -> 12 are both flagged at limit 3.
C6_FlagsAbsoluteAdjacentDifference ==
    probe.stage = "listed" =>
        LET df1 == DropNa([i \in 1..Len(probe.column) |-> i], probe.column)
        IN  \A i \in 1..(Len(df1) - 1) :
                (Abs(Val(df1[i + 1].val) - Val(df1[i].val)) >= probe.limit)
                    <=> (df1[i].time \in probe.flagged \/ df1[i + 1].time \in probe.flagged)

\* the quadrants (of 90 degrees, bounds included) an angle lies in
Quadrants(a) == {q \in 0..3 : 900 * q <= a /\ a <= 900 * (q + 1)}

\* C7: decomposing a speed s > 0 and a direction d of [0, 360) and
\* reconstructing from components with u # 0 gives back s (to 0.1 m/s) and a
\* direction within 0.1 degree of d, in the quadrant of d and in 0..360.
C7_RoundTrip ==
    probe.stage = "rebuilt" /\ Val(probe.u) # 0 =>
        /\ ~IsNaN(probe.speed) /\ ~IsNaN(probe.dir)
        /\ RoundDiv(Val(probe.speed), 100) = Val(probe.ws)
        /\ Abs(Val(probe.dir) - Val(probe.wd)) <= 1
        /\ Val(probe.dir) \in 0..3600
        /\ Quadrants(Val(probe.dir)) \cap Quadrants(Val(probe.wd)) # {}

\* C7 witness: a round trip of a direction of the south-west quadrant, where
\* u > 0 and the 180 degree offset applies.
C7_Witness ==
    /\ probe.stage = "rebuilt"
    /\ Val(probe.u) > 0
    /\ Val(probe.wd) \in 1801..2699
    /\ probe.dir = probe.wd

=============================================================================
